---- MODULE Spec2Model ----
(***************************************************************************)
(* Model of the log-search gateway router of src/DOCKER_EXAMPLE/src/      *)
(* index.js: the POST /search handler (request defaults, query body,      *)
(* PIT resolution, search_after, response projection, catch) and the      *)
(* POST /close-pit handler, together with the search engine they call     *)
(* (an index, one point-in-time snapshot, its replies) and a paginating   *)
(* client.                                                                *)
(***************************************************************************)
EXTENDS Integers, Sequences, FiniteSets, TLC

(***************************************************************************)
(* Bounds of the model.                                                    *)
(***************************************************************************)
\* Documents of the engine's index are 1..MaxDocs.
MaxDocs == 3

(***************************************************************************)
(* JavaScript values.  Every value is a record of one shape, tagged with   *)
(* its type: undefined, null, boolean (n = 1 for true), number, NaN,       *)
(* string, array (a holds the elements).                                   *)
(***************************************************************************)
Undef == [t |-> "undef", n |-> 0, s |-> "", a |-> <<>>]
Null == [t |-> "null", n |-> 0, s |-> "", a |-> <<>>]
NaN == [t |-> "nan", n |-> 0, s |-> "", a |-> <<>>]
Num(k) == [t |-> "num", n |-> k, s |-> "", a |-> <<>>]
Str(x) == [t |-> "str", n |-> 0, s |-> x, a |-> <<>>]
Bool(b) == [t |-> "bool", n |-> IF b THEN 1 ELSE 0, s |-> "", a |-> <<>>]
Arr(q) == [t |-> "arr", n |-> 0, s |-> "", a |-> q]
\* An object whose content the handler never reads (hits.total of the engine).
Obj(k) == [t |-> "obj", n |-> k, s |-> "", a |-> <<>>]

\* v == null in JavaScript: true of null and of undefined.
IsNullish(v) == v.t \in {"undef", "null"}

\* ToBoolean: what `if (v)`, `!v` and `v || d` test.
Truthy(v) ==
    CASE v.t \in {"undef", "null", "nan"} -> FALSE
      [] v.t = "bool" -> v.n = 1
      [] v.t = "num" -> v.n # 0
      [] v.t = "str" -> v.s # ""
      [] OTHER -> TRUE

\* a || b
Or(a, b) == IF Truthy(a) THEN a ELSE b

\* A destructuring default applies to undefined only (not to null).
Default(v, d) == IF v.t = "undef" THEN d ELSE v

\* Number(s) of a string, on the strings the requests of this model use.
ParseNumber(x) ==
    CASE x = "" -> Num(0)
      [] x = "7" -> Num(7)
      [] x = "2000" -> Num(2000)
      [] OTHER -> NaN

\* Number(v)
ToNumber(v) ==
    CASE v.t = "num" -> v
      [] v.t = "nan" -> NaN
      [] v.t = "undef" -> NaN
      [] v.t = "null" -> Num(0)
      [] v.t = "bool" -> Num(v.n)
      [] v.t = "str" -> ParseNumber(v.s)
      [] OTHER -> IF Len(v.a) = 0 THEN Num(0)
                  ELSE IF Len(v.a) = 1 /\ v.a[1].t = "num" THEN v.a[1]
                  ELSE NaN

Min(a, b) == IF a <= b THEN a ELSE b

\* String(q).replace(/[^\w\s"]/g, " ") on the query strings of this model.
Sanitize(x) ==
    CASE x = "\"error\" | timeout" -> "\"error\"   timeout"
      [] x = "conn-reset" -> "conn reset"
      [] OTHER -> x

(***************************************************************************)
(* The request body of POST /search.                                       *)
(***************************************************************************)
NoTime == [t |-> "undef", gte |-> Undef, lte |-> Undef]
NullTime == [t |-> "null", gte |-> Undef, lte |-> Undef]
Time(g, l) == [t |-> "obj", gte |-> g, lte |-> l]

NoPit == [t |-> "undef", id |-> Undef, keep_alive |-> Undef]
Pit(i, k) == [t |-> "obj", id |-> i, keep_alive |-> k]

\* req.body || {} : a request without a body has every field undefined.
EmptyBody ==
    [q |-> Undef, services |-> Undef, levels |-> Undef, time |-> NoTime,
     size |-> Undef, pit |-> NoPit, cursor |-> Undef, highlight |-> Undef,
     includeTimeline |-> Undef, includeFacets |-> Undef]

\* The destructuring of lines 51-63 with its inline defaults.
Destructure(b) ==
    [q |-> Default(b.q, Str("\"error\" | timeout")),
     services |-> Default(b.services, Arr(<<>>)),
     levels |-> Default(b.levels, Arr(<<>>)),
     time |-> IF b.time.t = "undef" THEN Time(Str("now-24h"), Str("now"))
              ELSE b.time,
     size |-> Default(b.size, Num(100)),
     pit |-> b.pit,
     cursor |-> b.cursor,
     highlight |-> Default(b.highlight, Bool(TRUE)),
     includeTimeline |-> Default(b.includeTimeline, Bool(TRUE)),
     includeFacets |-> Default(b.includeFacets, Bool(TRUE))]

\* A scalar dropped instead of wrapped.
asArray_DropScalar(v) == IF v.t = "arr" THEN v.a ELSE <<>>

\* lines 32-35
asArray(v) ==
    IF IsNullish(v) THEN <<>>
    ELSE IF v.t = "arr" THEN v.a ELSE <<v>>

\* The two required match legs.
must(q) ==
    [simple_query_string |-> q,
     multi_match |-> Sanitize(IF q.t = "str" THEN q.s ELSE "")]

RangeClause(g, l) ==
    [kind |-> "range", field |-> "@timestamp", gte |-> g, lte |-> l,
     values |-> <<>>]
TermsClause(f, vs) ==
    [kind |-> "terms", field |-> f, gte |-> Undef, lte |-> Undef,
     values |-> vs]

filter(time, levels, services) ==
    <<RangeClause(Or(time.gte, Str("now-24h")), Or(time.lte, Str("now")))>>
    \o (IF Len(asArray(levels)) # 0
        THEN <<TermsClause("level", asArray(levels))>> ELSE <<>>)
    \o (IF Len(asArray(services)) # 0
        THEN <<TermsClause("service", asArray(services))>> ELSE <<>>)

\* Math.min(Number(size) || 50, 1000)
PageSize(size) == Min(Or(ToNumber(size), Num(50)).n, 1000)

\* The aggregations attached under the two toggles.
FacetAggs == {"by_service", "by_level", "by_error_code"}
aggs(includeFacets, includeTimeline) ==
    (IF Truthy(includeFacets) THEN FacetAggs ELSE {})
    \cup (IF Truthy(includeTimeline) THEN {"timeline"} ELSE {})

\* time.gte of a null time throws a TypeError (line 88).
ComposeThrows(b) == Destructure(b).time.t = "null"

\* The search body of lines 66-152, before the PIT and the cursor are set.
ComposeBody(b) ==
    LET d == Destructure(b) IN
    [size |-> PageSize(d.size),
     track_total_hits |-> TRUE,
     must |-> must(d.q),
     filter |-> filter(d.time, d.levels, d.services),
     sort |-> <<"@timestamp:desc", "_shard_doc:desc">>,
     rescore_window |-> Min(1000, PageSize(d.size)),
     highlight |-> Truthy(d.highlight),
     aggs |-> aggs(d.includeFacets, d.includeTimeline),
     pit |-> [id |-> Undef, keep_alive |-> Undef],
     search_after |-> Undef]

\* The test of the length left out: any array is attached.
search_after_AnyArray(cursor) == IF cursor.t = "arr" THEN cursor ELSE Undef

\* Array.isArray(cursor) && cursor.length ? cursor : (no search_after), line 163
search_after(cursor) ==
    IF cursor.t = "arr" /\ Len(cursor.a) # 0 THEN cursor ELSE Undef

\* pit?.id and pit?.keep_alive || "1m", lines 156-157
pitId(b) == IF b.pit.t = "obj" THEN b.pit.id ELSE Undef
keepAlive(b) ==
    Or(IF b.pit.t = "obj" THEN b.pit.keep_alive ELSE Undef, Str("1m"))

\* body.pit and body.search_after, lines 162-163
SearchBody(b) ==
    [ComposeBody(b) EXCEPT
       !.pit = [id |-> pitId(b), keep_alive |-> keepAlive(b)],
       !.search_after = search_after(b.cursor)]

(***************************************************************************)
(* Errors: what the catch blocks read of a thrown value.                   *)
(***************************************************************************)
Err(sc, msc, mbe, msg) ==
    [statusCode |-> sc, metaStatus |-> msc, metaError |-> mbe, message |-> msg]

\* ReferenceError: INDEX is not defined (the declaration of line 29 is a comment).
ReferenceErrorINDEX ==
    Err(Undef, Undef, Undef, Str("INDEX is not defined"))
\* TypeError of reading time.gte of null.
TypeErrorTime ==
    Err(Undef, Undef, Undef, Str("Cannot read properties of null"))
\* The engine client's ResponseError for an engine-reported status.
ResponseError(st, why) == Err(Num(st), Num(st), Str(why), Str("ResponseError"))
\* An error that carries its status under meta only.
MetaError(st) == Err(Undef, Num(st), Undef, Str("Response Error"))
\* A connection error carries no status.
ConnectionError == Err(Undef, Undef, Undef, Str("connect ECONNREFUSED"))
\* A thrown value with nothing to read.
BareError == Err(Undef, Undef, Undef, Undef)

TransportErrors == {MetaError(503), ConnectionError, BareError}

\* res.json without res.status: the error goes out with status 200.
ErrorStatus_Unset(err) == 200

\* The status under meta left unread.
ErrorStatus_NoMeta(err) == Or(err.statusCode, Num(500)).n

\* err?.statusCode || err?.meta?.statusCode || 500
ErrorStatus(err) == Or(Or(err.statusCode, err.metaStatus), Num(500)).n

\* err?.meta?.body?.error || err?.message || fallback
ErrorValue(err, fallback) == Or(Or(err.metaError, err.message), Str(fallback))

(***************************************************************************)
(* Responses of the gateway.                                               *)
(***************************************************************************)
NoFacets == [present |-> FALSE, filled |-> {}]

Response(st, okv, er) ==
    [status |-> st, ok |-> okv, error |-> er, total |-> Undef,
     pit |-> [id |-> Undef, keep_alive |-> Undef], hits |-> <<>>,
     facets |-> NoFacets, timeline |-> FALSE, nextCursor |-> Undef]

\* The catch blocks, lines 201-208 and 219-226.
Catch(err, fallback) ==
    Response(ErrorStatus(err), FALSE, ErrorValue(err, fallback))

(***************************************************************************)
(* The search engine: an index of documents, and one point-in-time handle  *)
(* that pins a snapshot of it.  Document d has @timestamp (d + 1) \div 2   *)
(* (two documents may share a timestamp) and _shard_doc d.                 *)
(***************************************************************************)
Docs == 1..MaxDocs
TsOf(d) == (d + 1) \div 2
SortOf(d) == Arr(<<Num(TsOf(d)), Num(d)>>)

\* The ids under which the engine knows its point-in-time handle: the id it
\* issued and the rotated id its search replies may carry.  "px" is an id
\* the engine never issued.
EnginePitIds == {"p1", "p1r"}
ClientPitIds == EnginePitIds \cup {"px"}

\* A sort tuple the engine accepts as search_after: two numbers.
ValidAfter(c) ==
    c.t = "arr" /\ Len(c.a) = 2 /\ c.a[1].t = "num" /\ c.a[2].t = "num"

\* Document d comes strictly after sort tuple c in (@timestamp desc,
\* _shard_doc desc) order.
After(d, c) ==
    \/ TsOf(d) < c.a[1].n
    \/ TsOf(d) = c.a[1].n /\ d < c.a[2].n

Max(S) == CHOOSE m \in S : \A x \in S : x <= m

RECURSIVE Descending(_)
Descending(S) ==
    IF S = {} THEN <<>> ELSE <<Max(S)>> \o Descending(S \ {Max(S)})

Take(q, k) == SubSeq(q, 1, Min(k, Len(q)))

\* The hits of one search call on snapshot snap.
EngineHits(snap, body) ==
    LET cand == IF body.search_after.t = "undef" THEN snap
                ELSE {d \in snap : After(d, body.search_after)}
        ord == Take(Descending(cand), body.size)
    IN [i \in 1..Len(ord) |-> [_id |-> ord[i], sort |-> SortOf(ord[i])]]

\* One envelope of an engine reply; the reply of a search call carries its
\* content either under body or at the top level.
NoEnvelope ==
    [present |-> FALSE, hits |-> <<>>, total |-> Undef, pit_id |-> Undef,
     hasAggs |-> FALSE, aggregations |-> {}]
Envelope(h, tot, pid, ag) ==
    [present |-> TRUE, hits |-> h, total |-> Obj(tot), pit_id |-> pid,
     hasAggs |-> ag # {}, aggregations |-> ag]

EngineReply(shape, env) ==
    IF shape = "body" THEN [body |-> env, top |-> NoEnvelope]
    ELSE [body |-> NoEnvelope, top |-> env]
NoReply == [body |-> NoEnvelope, top |-> NoEnvelope]

\* The search call is one the engine answers with hits.
EngineAccepts(p, body) ==
    /\ p.state = "open"
    /\ body.pit.id.t = "str" /\ body.pit.id.s \in EnginePitIds
    /\ body.size >= 0
    /\ body.search_after.t = "undef" \/ ValidAfter(body.search_after)

\* The error the engine reports for a search call it does not accept.
EngineSearchError(p, body) ==
    IF body.size < 0 \/ ~(body.search_after.t = "undef" \/ ValidAfter(body.search_after))
    THEN ResponseError(400, "illegal_argument_exception")
    ELSE ResponseError(404, "search_context_missing_exception")

(***************************************************************************)
(* The response projection of POST /search, lines 167-200.                 *)
(***************************************************************************)
\* resp.body?.hits?.hits || resp.hits?.hits || []
RawHits(resp) ==
    IF resp.body.present THEN resp.body.hits
    ELSE IF resp.top.present THEN resp.top.hits ELSE <<>>

\* A projection that walks the engine's hits from the last to the first.
hits_Reversed(resp) ==
    LET n == Len(RawHits(resp)) IN
    [i \in 1..n |->
        [id |-> RawHits(resp)[n + 1 - i]._id, sort |-> RawHits(resp)[n + 1 - i].sort]]

\* .map(h => ({id: h._id, sort: h.sort, ...}))
hits(resp) ==
    [i \in 1..Len(RawHits(resp)) |->
        [id |-> RawHits(resp)[i]._id, sort |-> RawHits(resp)[i].sort]]

\* resp.body?.pit_id || pitId
nextPitId(resp, pid) == Or(resp.body.pit_id, pid)

\* resp.body?.hits?.total || resp.hits?.total
total(resp) == Or(resp.body.total, resp.top.total)

\* resp.body?.aggregations ? {services, levels, errorCodes} : undefined
facets(resp) ==
    IF resp.body.hasAggs
    THEN [present |-> TRUE, filled |-> resp.body.aggregations \cap FacetAggs]
    ELSE NoFacets

\* resp.body?.aggregations?.timeline?.buckets || undefined
timeline(resp) == resp.body.hasAggs /\ "timeline" \in resp.body.aggregations

\* The cursor taken from the first hit of the page instead of the last.
nextCursor_FirstHit(h) == IF Len(h) # 0 THEN h[1].sort ELSE Null

\* hits.length ? hits[hits.length - 1].sort : null
nextCursor(h) == IF Len(h) # 0 THEN h[Len(h)].sort ELSE Null

\* res.json({ok: true, ...}), lines 185-200
Project(resp, pid, ka) ==
    [status |-> 200, ok |-> TRUE, error |-> Undef, total |-> total(resp),
     pit |-> [id |-> nextPitId(resp, pid), keep_alive |-> ka],
     hits |-> hits(resp), facets |-> facets(resp),
     timeline |-> timeline(resp), nextCursor |-> nextCursor(hits(resp))]

\* The test without its negation: a close that names an id is turned away.
MissingId_Inverted(id) == Truthy(id)

\* id == null in place of !id: an empty id passes.
MissingId_NullOnly(id) == IsNullish(id)

\* !id of POST /close-pit, line 216
MissingId(id) == ~Truthy(id)

(***************************************************************************)
(* State.                                                                  *)
(***************************************************************************)
VARIABLES
    index,  \* the engine: the documents of the live index
    pit,    \* the engine: its point-in-time handle, [state, snap]
    pc,     \* the gateway: "idle" (no request), "search" (a handler awaiting
            \* es.search), "close" (a handler awaiting es.closePointInTime),
            \* "done" (the handler has answered and returned)
    req,    \* the request being (or last) handled
    frame,  \* the handler's locals: pitId, keepAlive, body, and what its
            \* engine call gave it (resp, or the error err it threw)
    calls,  \* the engine calls made for req, in order
    res,    \* the responses sent for req, in order
    sess,   \* the paginating client: its session
    other   \* a second invocation of a handler, in flight beside the one in
            \* pc, req, frame, calls, res: its [pc, req, frame, calls, res]

vars == <<index, pit, pc, req, frame, calls, res, sess, other>>

NoRequest == [route |-> "none", hasBody |-> FALSE, body |-> EmptyBody, id |-> Undef]
NoFrame ==
    [pitId |-> Undef, keepAlive |-> Undef, body |-> SearchBody(EmptyBody),
     resp |-> NoReply, failed |-> FALSE, err |-> BareError]
\* pitId kept in a variable of the module that a handler fills only while
\* it is unset: a handler that starts while another awaits its search call
\* goes on with the other's pitId.
Frame_Shared(pid, ka, body) ==
    [NoFrame EXCEPT !.pitId = IF other.pc = "search" THEN other.frame.pitId ELSE pid,
                    !.keepAlive = ka, !.body = body]

\* let pitId, const keepAlive, const body: locals of one invocation
Frame(pid, ka, body) == [NoFrame EXCEPT !.pitId = pid, !.keepAlive = ka, !.body = body]
NoSession ==
    [stage |-> "none", fresh |-> FALSE, size |-> Undef, want |-> {},
     got |-> <<>>, engineFailed |-> FALSE]

SearchCall(body) == [op |-> "search", body |-> body, id |-> Undef]
CloseCall(id) == [op |-> "close", body |-> SearchBody(EmptyBody), id |-> id]

\* No second invocation: the gateway handles one request.
NoInvocation ==
    [pc |-> "idle", req |-> NoRequest, frame |-> NoFrame, calls |-> <<>>,
     res |-> <<>>]

Init ==
    /\ index \in SUBSET Docs
    /\ pit = [state |-> "none", snap |-> {}]
    /\ pc = "idle"
    /\ req = NoRequest
    /\ frame = NoFrame
    /\ calls = <<>>
    /\ res = <<>>
    /\ sess = NoSession
    /\ other = NoInvocation

(***************************************************************************)
(* POST /search, up to its first await (lines 49-165).                     *)
(***************************************************************************)
\* The test of pitId left out: the handler goes on to the search call.
NeedsOpen_Never(b) == FALSE

\* if (!pitId): the handler goes on to open a PIT, line 158
NeedsOpen(b) == ~Truthy(pitId(b))

HandleSearch(hasBody, b) ==
    LET bd == IF hasBody THEN b ELSE EmptyBody IN
    /\ req' = [route |-> "search", hasBody |-> hasBody, body |-> bd, id |-> Undef]
    /\ IF ComposeThrows(bd)
       THEN \* line 88 throws; the catch block answers
            /\ res' = <<Catch(TypeErrorTime, "Search error")>>
            /\ calls' = <<>>
            /\ frame' = NoFrame
            /\ pc' = "done"
       ELSE IF NeedsOpen(bd)
       THEN \* line 159: the argument { index: INDEX, ... } is evaluated
            \* before es.openPointInTime is called, and INDEX is not
            \* declared: a ReferenceError, which the catch block answers
            /\ res' = <<Catch(ReferenceErrorINDEX, "Search error")>>
            /\ calls' = <<>>
            /\ frame' = Frame(pitId(bd), keepAlive(bd), ComposeBody(bd))
            /\ pc' = "done"
       ELSE \* line 165: es.search({ body })
            /\ res' = <<>>
            /\ calls' = <<SearchCall(SearchBody(bd))>>
            /\ frame' = Frame(pitId(bd), keepAlive(bd), SearchBody(bd))
            /\ pc' = "search"
    /\ UNCHANGED <<index, pit, other>>

SearchRequest(hasBody, b) ==
    /\ pc = "idle"
    /\ HandleSearch(hasBody, b)
    /\ sess' = NoSession

(***************************************************************************)
(* POST /search, from the reply of es.search on (lines 165-208).           *)
(***************************************************************************)
SearchOk(shape, rotated) ==
    /\ pc = "search"
    /\ EngineAccepts(pit, frame.body)
    /\ LET env == Envelope(EngineHits(pit.snap, frame.body),
                           Cardinality(pit.snap), rotated, frame.body.aggs)
           resp == EngineReply(shape, env)
       IN /\ res' = Append(res, Project(resp, frame.pitId, frame.keepAlive))
          /\ frame' = [frame EXCEPT !.resp = resp]
    /\ pc' = "done"
    /\ UNCHANGED <<index, pit, req, calls, sess, other>>

\* A catch block that issues the failed call once more.
CallsInCatch_Retry(c) == Append(c, c[Len(c)])

\* catch (err) { console.error(...); res.status(...).json(...) }: the engine
\* calls of the request stay as they were, lines 201-208
CallsInCatch(c) == c

SearchFail(err) ==
    /\ pc = "search"
    /\ \/ err \in TransportErrors
       \/ ~EngineAccepts(pit, frame.body) /\ err = EngineSearchError(pit, frame.body)
    /\ res' = Append(res, Catch(err, "Search error"))
    /\ frame' = [frame EXCEPT !.failed = TRUE, !.err = err]
    /\ calls' = CallsInCatch(calls)
    /\ pc' = "done"
    /\ UNCHANGED <<index, pit, req, sess, other>>

(***************************************************************************)
(* POST /close-pit (lines 213-227).                                        *)
(***************************************************************************)
CloseRequest(hasBody, id) ==
    LET i == IF hasBody THEN id ELSE Undef IN
    /\ pc = "idle"
    /\ req' = [route |-> "close", hasBody |-> hasBody, body |-> EmptyBody, id |-> i]
    /\ frame' = NoFrame
    /\ sess' = NoSession
    /\ IF MissingId(i)
       THEN /\ res' = <<Response(400, FALSE, Str("Missing PIT id"))>>
            /\ calls' = <<>>
            /\ pc' = "done"
       ELSE /\ res' = <<>>
            /\ calls' = <<CloseCall(i)>>
            /\ pc' = "close"
    /\ UNCHANGED <<index, pit, other>>

EngineClosable(p, id) ==
    p.state = "open" /\ id.t = "str" /\ id.s \in EnginePitIds

CloseOk ==
    /\ pc = "close"
    /\ EngineClosable(pit, req.id)
    /\ pit' = [state |-> "closed", snap |-> {}]
    /\ res' = Append(res, Response(200, TRUE, Undef))
    /\ pc' = "done"
    /\ UNCHANGED <<index, req, frame, calls, sess, other>>

CloseFail(err) ==
    /\ pc = "close"
    /\ \/ err \in TransportErrors
       \/ /\ ~EngineClosable(pit, req.id)
          /\ err = ResponseError(404, "search_context_missing_exception")
    /\ res' = Append(res, Catch(err, "Close PIT error"))
    /\ frame' = [frame EXCEPT !.failed = TRUE, !.err = err]
    /\ pc' = "done"
    /\ UNCHANGED <<index, pit, req, calls, sess, other>>

(***************************************************************************)
(* The handler has answered and returned (lines 209 and 227): the gateway  *)
(* keeps nothing of the request.  A paginating client first reads the      *)
(* response.                                                               *)
(***************************************************************************)
RequestDone ==
    /\ pc = "done"
    /\ sess.stage # "paging"
    /\ pc' = "idle"
    /\ req' = NoRequest
    /\ frame' = NoFrame
    /\ calls' = <<>>
    /\ res' = <<>>
    /\ sess' = NoSession
    /\ UNCHANGED <<index, pit, other>>

(***************************************************************************)
(* The engine's other clients: writes to the index, and a PIT opened on    *)
(* the engine directly.                                                    *)
(***************************************************************************)
EngineWrite(d) ==
    /\ index' = IF d \in index THEN index \ {d} ELSE index \cup {d}
    /\ UNCHANGED <<pit, pc, req, frame, calls, res, sess, other>>

ExternalOpenPit ==
    /\ pit.state = "none"
    /\ pit' = [state |-> "open", snap |-> index]
    /\ UNCHANGED <<index, pc, req, frame, calls, res, sess, other>>

(***************************************************************************)
(* The paginating client: a first page, then each next page with the       *)
(* pit.id and nextCursor of the previous response, until a page without    *)
(* hits (or an error response, which leaves it nothing to go on with).     *)
(***************************************************************************)
PageBody(sz, p, c) == [EmptyBody EXCEPT !.size = sz, !.pit = p, !.cursor = c]

\* The documents a session that starts now is to see: the snapshot of the
\* PIT it names, or of the PIT to be opened for it.
SessionSnapshot(p) == IF p.t # "obj" THEN index ELSE pit.snap

\* A client that names a PIT holds the id of an open one.
SessionFirstPage(sz, p) ==
    /\ pc = "idle"
    /\ p.t = "obj" => pit.state = "open"
    /\ HandleSearch(TRUE, PageBody(sz, p, Undef))
    /\ sess' = [stage |-> "paging", fresh |-> p.t # "obj", size |-> sz,
                want |-> SessionSnapshot(p), got |-> <<>>,
                engineFailed |-> FALSE]

HitIds(h) == [i \in 1..Len(h) |-> h[i].id]

SessionNextPage ==
    /\ sess.stage = "paging"
    /\ pc = "done"
    /\ Len(res) = 1
    /\ res[1].ok
    /\ Len(res[1].hits) # 0
    /\ HandleSearch(TRUE, PageBody(sess.size,
                                   Pit(res[1].pit.id, res[1].pit.keep_alive),
                                   res[1].nextCursor))
    /\ sess' = [sess EXCEPT !.got = sess.got \o HitIds(res[1].hits)]

SessionEnd ==
    /\ sess.stage = "paging"
    /\ pc = "done"
    /\ Len(res) = 1
    /\ ~res[1].ok \/ Len(res[1].hits) = 0
    /\ sess' = [sess EXCEPT !.stage = "over", !.engineFailed = frame.failed]
    /\ UNCHANGED <<index, pit, pc, req, frame, calls, res, other>>

(***************************************************************************)
(* The requests of the model.                                              *)
(***************************************************************************)
PitInputs ==
    {NoPit, [t |-> "null", id |-> Undef, keep_alive |-> Undef],
     Pit(Str("p1"), Undef), Pit(Str("p1r"), Str("5m")), Pit(Str("px"), Undef),
     Pit(Str(""), Str("5m")), Pit(Undef, Str("5m"))}

CursorInputs ==
    {Undef, Null, Arr(<<>>), Str("x"), Arr(<<Num(1)>>)}
    \cup {SortOf(d) : d \in Docs}

SizeInputs ==
    {Undef, Null, Num(-5), Num(0), Num(1), Num(999), Num(1000), Num(1001),
     Num(5000), Str("abc"), Str("7"), Str("2000"), Str(""), Bool(TRUE)}

ListInputs ==
    {Undef, Null, Arr(<<>>), Str("error"), Arr(<<Str("error")>>), Num(0),
     Arr(<<Num(0)>>), Str(""), Arr(<<Str("")>>), Arr(<<Null>>),
     Arr(<<Str("error"), Str("warn")>>)}

TimeInputs == {NoTime, NullTime, Time(Str("now-6h"), Undef)}

ToggleInputs == {Undef, Null, Bool(TRUE), Bool(FALSE)}

OnPit == [EmptyBody EXCEPT !.pit = Pit(Str("p1"), Undef)]

\* Requests that vary the page, the PIT and the cursor.
PagingBodies ==
    {PageBody(sz, p, c) : sz \in {Num(1), Num(2)}, p \in PitInputs,
                          c \in CursorInputs}
\* Requests that vary the size and the time range.
SizeBodies ==
    {[OnPit EXCEPT !.size = sz, !.time = tm] : sz \in SizeInputs, tm \in TimeInputs}
\* Requests that vary the level and service filters and the query.
FilterBodies ==
    {[OnPit EXCEPT !.levels = l, !.services = sv] :
        l \in ListInputs, sv \in {Undef, Str("api")}}
    \cup {[OnPit EXCEPT !.levels = l, !.services = sv] :
            l \in {Undef, Arr(<<Str("warn")>>)}, sv \in ListInputs}
    \cup {[OnPit EXCEPT !.q = Str("conn-reset")]}
\* Requests that vary the toggles.
ToggleBodies ==
    {[OnPit EXCEPT !.highlight = h, !.includeFacets = f, !.includeTimeline = tl] :
        h \in {Undef, Bool(FALSE)}, f \in ToggleInputs, tl \in ToggleInputs}

SearchBodies == PagingBodies \cup SizeBodies \cup FilterBodies \cup ToggleBodies

CloseIds == {Undef, Null, Str("")} \cup {Str(i) : i \in ClientPitIds}

Next ==
    \/ \E b \in SearchBodies : SearchRequest(TRUE, b)
    \/ SearchRequest(FALSE, EmptyBody)
    \/ \E sh \in {"body", "top"}, rot \in {Undef, Str("p1r")} : SearchOk(sh, rot)
    \/ \E e \in TransportErrors \cup {EngineSearchError(pit, frame.body)} :
          SearchFail(e)
    \/ \E i \in CloseIds : CloseRequest(TRUE, i)
    \/ CloseRequest(FALSE, Undef)
    \/ CloseOk
    \/ \E e \in TransportErrors
                 \cup {ResponseError(404, "search_context_missing_exception")} :
          CloseFail(e)
    \/ \E d \in Docs : EngineWrite(d)
    \/ ExternalOpenPit
    \/ \E sz \in {Num(1), Num(2)}, p \in {NoPit, Pit(Str("p1"), Undef)} :
          SessionFirstPage(sz, p)
    \/ SessionNextPage
    \/ SessionEnd
    \/ RequestDone

Spec == Init /\ [][Next]_vars

(***************************************************************************)
(* Two requests in flight.  Both handlers are async functions: at each     *)
(* await (lines 159, 165, 217) the event loop may run the other            *)
(* invocation.  Switch turns to the other invocation: what the actions     *)
(* above do to pc, req, frame, calls and res they then do to it.  An       *)
(* invocation that has answered stays on record until RequestDone.         *)
(***************************************************************************)
Invocation == [pc |-> pc, req |-> req, frame |-> frame, calls |-> calls, res |-> res]

Switch ==
    /\ sess.stage = "none"
    /\ other' = Invocation
    /\ pc' = other.pc
    /\ req' = other.req
    /\ frame' = other.frame
    /\ calls' = other.calls
    /\ res' = other.res
    /\ UNCHANGED <<index, pit, sess>>

ConcBodies ==
    {PageBody(Num(2), p, c) :
        p \in {NoPit, Pit(Str("p1"), Undef), Pit(Str("p1r"), Str("5m"))},
        c \in {Undef, SortOf(2)}}

ConcIds == {Undef, Str("p1"), Str("p1r")}

NextConc ==
    \/ \E b \in ConcBodies : SearchRequest(TRUE, b)
    \/ \E sh \in {"body", "top"}, rot \in {Undef, Str("p1r")} : SearchOk(sh, rot)
    \/ \E e \in TransportErrors \cup {EngineSearchError(pit, frame.body)} :
          SearchFail(e)
    \/ \E i \in ConcIds : CloseRequest(TRUE, i)
    \/ CloseOk
    \/ \E e \in TransportErrors
                 \cup {ResponseError(404, "search_context_missing_exception")} :
          CloseFail(e)
    \/ ExternalOpenPit
    \/ RequestDone
    \/ Switch

SpecConc == Init /\ [][NextConc]_vars

(***************************************************************************)
(* Progress.  What the gateway does by itself is fair: a handler that has  *)
(* answered returns.  The steps that resume a handler from an await        *)
(* (SearchOk, SearchFail, CloseOk, CloseFail) are the engine client's      *)
(* promise settling: the handlers set no timer and race the call against   *)
(* nothing (lines 159, 165, 217), so a call that never completes resumes   *)
(* nothing and no fairness is stated for these steps.                      *)
(***************************************************************************)
SpecLive == Init /\ [][Next]_vars /\ WF_vars(RequestDone)

(***************************************************************************)
(* Properties.                                                             *)
(***************************************************************************)
\* The request in hand is a POST /search that got a 200 response.
SearchAnswered ==
    pc = "done" /\ req.route = "search" /\ Len(res) = 1 /\ res[1].ok

Count(d, q) == Cardinality({i \in 1..Len(q) : q[i] = d})

\* C1: stable pagination.  When the session of a client that began with a
\* first-page request without pit and cursor, and went on with the pit.id
\* and nextCursor of each response, is over, and no engine call of it
\* failed, every document of the snapshot taken at its first page - whatever
\* was written to the index meanwhile - has been returned in exactly one page.
C1_StablePagination ==
    (sess.stage = "over" /\ sess.fresh /\ ~sess.engineFailed)
        => \A d \in sess.want : Count(d, sess.got) = 1

\* The same of a session whose first page names a PIT opened on the engine
\* directly: what the engine's PIT and search_after give when the handler
\* reaches them.
PitSessionStable ==
    (sess.stage = "over" /\ ~sess.fresh /\ ~sess.engineFailed)
        => /\ \A d \in sess.want : Count(d, sess.got) = 1
           /\ \A i \in 1..Len(sess.got) : sess.got[i] \in sess.want
PitSessionPaged ==
    sess.stage = "over" /\ ~sess.fresh /\ ~sess.engineFailed
    /\ Len(sess.got) = MaxDocs /\ sess.size = Num(1) /\ index = {}

\* C2: in every 200 response of POST /search, nextCursor is the sort tuple
\* of the last hit when there are hits, and null when there are none.
C2_NextCursor ==
    SearchAnswered =>
        LET r == res[1] IN
        IF Len(r.hits) # 0 THEN r.nextCursor = r.hits[Len(r.hits)].sort
        ELSE r.nextCursor = Null

\* A page of two hits, whose cursor is the sort tuple of the second.
C2_Witness ==
    /\ SearchAnswered
    /\ Len(res[1].hits) = 2
    /\ res[1].hits[1].sort # res[1].hits[2].sort
    /\ res[1].nextCursor = res[1].hits[2].sort

\* The search calls made for the request in hand.
SearchCalls == {i \in 1..Len(calls) : calls[i].op = "search"}
OpenCalls == {i \in 1..Len(calls) : calls[i].op = "open"}

\* C3: whatever the request's size, the page size sent to the engine lies
\* in [1, 1000]; for a numeric size s it is min(s, 1000); for an absent or
\* non-numeric size it is a default of at least 1.
C3_PageSizeClamped ==
    req.route = "search" =>
        \A i \in SearchCalls :
            LET sz == calls[i].body.size
                s == req.body.size
            IN /\ sz >= 1 /\ sz <= 1000
               /\ s.t = "num" => sz = Min(s.n, 1000)

\* C4: a POST /search request makes an open-PIT call exactly when it names
\* no pit.id, and then exactly one, before its search call; its search call
\* carries the id the request named when it named one, and never no id.
C4_PitResolution ==
    (req.route = "search" /\ pc \in {"search", "done"} /\ ~ComposeThrows(req.body)) =>
        /\ Cardinality(OpenCalls) = (IF Truthy(pitId(req.body)) THEN 0 ELSE 1)
        /\ \A i \in SearchCalls :
              /\ Truthy(calls[i].body.pit.id)
              /\ \A j \in OpenCalls : j < i
              /\ Truthy(pitId(req.body)) => calls[i].body.pit.id = req.body.pit.id

\* The request's cursor is a non-empty sequence.
CursorGiven == req.body.cursor.t = "arr" /\ Len(req.body.cursor.a) > 0

\* C5: a search call carries search_after exactly when the request's cursor
\* is a non-empty sequence, and then search_after is that cursor.
C5_SearchAfter ==
    req.route = "search" =>
        \A i \in SearchCalls :
            IF CursorGiven THEN calls[i].body.search_after = req.body.cursor
            ELSE calls[i].body.search_after = Undef

\* A search call in flight that carries the request's two-element cursor.
C5_Witness ==
    /\ pc = "search"
    /\ Len(calls) = 1
    /\ req.body.cursor = SortOf(2)
    /\ calls[1].body.search_after = SortOf(2)

\* The envelope the hits of the engine's reply were read from.
HitsEnvelope == IF frame.resp.body.present THEN frame.resp.body ELSE frame.resp.top

\* C6: in every 200 response of POST /search, pit.id is the id the engine's
\* reply carries, when it carries one (in the envelope the hits were read
\* from), and else the id sent in the search call; pit.keep_alive is the
\* keep-alive sent.
C6_PitRotation ==
    SearchAnswered =>
        /\ res[1].pit.id = (IF HitsEnvelope.pit_id.t = "str" THEN HitsEnvelope.pit_id
                            ELSE calls[1].body.pit.id)
        /\ res[1].pit.keep_alive = calls[1].body.pit.keep_alive

\* C7: the response has a facets section exactly when includeFacets was true
\* (or defaulted) and the engine returned facet buckets, and a timeline
\* section exactly when includeTimeline was true (or defaulted) and the
\* engine returned timeline buckets.
C7_FacetsTimeline ==
    SearchAnswered =>
        /\ res[1].facets.present <=>
              /\ Truthy(Default(req.body.includeFacets, Bool(TRUE)))
              /\ HitsEnvelope.aggregations \cap FacetAggs # {}
        /\ res[1].timeline <=>
              /\ Truthy(Default(req.body.includeTimeline, Bool(TRUE)))
              /\ "timeline" \in HitsEnvelope.aggregations

\* The body of the POST /close-pit in hand has no id.
CloseWithoutId ==
    /\ req.route = "close"
    /\ ~req.hasBody \/ req.id \in {Undef, Null, Str("")}

\* C8: POST /close-pit without an id is answered 400, ok:false, and makes
\* no engine call.
C8_CloseMissingId ==
    (CloseWithoutId /\ pc # "idle") =>
        /\ pc = "done"
        /\ calls = <<>>
        /\ Len(res) = 1 /\ res[1].status = 400 /\ ~res[1].ok

\* A close request with an empty id, answered.
C8_Witness ==
    /\ req.route = "close" /\ req.hasBody /\ req.id = Str("")
    /\ pc = "done" /\ Len(res) = 1 /\ res[1].status = 400

\* The status an error carries, 0 when it carries none.
CarriedStatus(err) ==
    IF err.statusCode.t = "num" THEN err.statusCode.n
    ELSE IF err.metaStatus.t = "num" THEN err.metaStatus.n ELSE 0

\* C9: a request one of whose engine calls failed gets exactly one response,
\* with ok:false and an error value, whose status is the status the failure
\* carries, and 500 when it carries none.
C9_UpstreamFailure ==
    /\ frame.failed => pc = "done"
    /\ Len(res) <= 1
    /\ (pc = "done" /\ frame.failed) =>
        /\ Len(res) = 1
        /\ ~res[1].ok
        /\ Truthy(res[1].error)
        /\ res[1].status = (IF CarriedStatus(frame.err) # 0
                            THEN CarriedStatus(frame.err) ELSE 500)

\* A search whose call failed with a status carried under meta only.
C9_Witness ==
    /\ pc = "done" /\ req.route = "search" /\ frame.failed
    /\ frame.err = MetaError(503)
    /\ Len(res) = 1 /\ res[1].status = 503

\* The terms filters of a search body on a field.
TermsOn(body, f) ==
    {i \in 1..Len(body.filter) :
        body.filter[i].kind = "terms" /\ body.filter[i].field = f}

\* What C10 says of one list field of the request in hand, given as value v
\* and sent as search body b, when it is a scalar of kinds.
ScalarAsList(b, kinds) ==
    /\ req.body.levels.t \in kinds =>
          b = SearchBody([req.body EXCEPT !.levels = Arr(<<req.body.levels>>)])
    /\ req.body.services.t \in kinds =>
          b = SearchBody([req.body EXCEPT !.services = Arr(<<req.body.services>>)])

NoFilterWhenEmpty(b) ==
    /\ req.body.levels \in {Undef, Arr(<<>>)} => TermsOn(b, "level") = {}
    /\ req.body.services \in {Undef, Arr(<<>>)} => TermsOn(b, "service") = {}

\* C10 as stated: for any value v, levels = v gives the search body of
\* levels = [v], likewise services; absent or empty gives no terms filter.
C10_ScalarAsListAny ==
    req.route = "search" =>
        \A i \in SearchCalls :
            /\ ScalarAsList(calls[i].body, {"null", "bool", "num", "str"})
            /\ NoFilterWhenEmpty(calls[i].body)

\* C10 amended: for any value v other than null.
C10_ScalarAsList ==
    req.route = "search" =>
        \A i \in SearchCalls :
            /\ ScalarAsList(calls[i].body, {"bool", "num", "str"})
            /\ NoFilterWhenEmpty(calls[i].body)

\* A search call for levels: "error", filtered on level ["error"].
C10_Witness ==
    /\ pc = "search" /\ Len(calls) = 1
    /\ req.body.levels = Str("error")
    /\ \E i \in 1..Len(calls[1].body.filter) :
          calls[1].body.filter[i] = TermsClause("level", <<Str("error")>>)

\* C11: a request with a non-empty cursor and no pit.id is rejected (or its
\* cursor ignored): no search call pairs a search_after with a PIT other
\* than the one the request named, in particular not with one opened for
\* the request.
C11_CursorNeedsPit ==
    req.route = "search" =>
        /\ \A i \in SearchCalls :
              calls[i].body.search_after # Undef =>
                  /\ OpenCalls = {}
                  /\ Truthy(pitId(req.body))
                  /\ calls[i].body.pit.id = req.body.pit.id
        /\ (CursorGiven /\ ~Truthy(pitId(req.body)) /\ pc # "idle") =>
              /\ pc = "done"
              /\ calls = <<>>
              /\ Len(res) = 1 /\ ~res[1].ok

\* A request with a cursor and no pit.id, rejected without an engine call.
C11_Witness ==
    /\ req.route = "search" /\ pc = "done"
    /\ req.body.cursor = SortOf(2) /\ req.body.pit = NoPit
    /\ calls = <<>>
    /\ Len(res) = 1 /\ res[1].status = 500 /\ ~res[1].ok

\* C16: a POST /search issues at most one search call and at most one
\* open-PIT call, and a failed search call is the last engine call of its
\* request: no retry, no PIT opened in place of the one that failed.
C16_NoRetry ==
    req.route = "search" =>
        /\ Cardinality(SearchCalls) <= 1
        /\ Cardinality(OpenCalls) <= 1
        /\ frame.failed =>
              /\ calls = <<SearchCall(frame.body)>>
              /\ Len(res) = 1 /\ ~res[1].ok

\* A search call on an id the engine does not know has failed and has been
\* answered.
C16_Witness ==
    /\ req.route = "search" /\ pc = "done"
    /\ frame.failed /\ frame.err = ResponseError(404, "search_context_missing_exception")
    /\ Len(calls) = 1 /\ calls[1].op = "search"
    /\ res[1].status = 404

\* Sort tuple a orders strictly before sort tuple b in (@timestamp desc,
\* tie-break desc) order.
SortAbove(a, b) ==
    \/ a.a[1].n > b.a[1].n
    \/ a.a[1].n = b.a[1].n /\ a.a[2].n > b.a[2].n

AloneCalls(r) ==
    IF r.route = "search"
    THEN IF ComposeThrows(r.body) \/ ~Truthy(pitId(r.body)) THEN <<>>
         ELSE <<SearchCall(SearchBody(r.body))>>
    ELSE IF r.route = "close" /\ Truthy(r.id) THEN <<CloseCall(r.id)>>
    ELSE <<>>

\* The response to the request of invocation v when it is the only request
\* and its engine call is answered as v's was.
AloneResponse(v) ==
    IF v.req.route = "search"
    THEN IF ComposeThrows(v.req.body) THEN Catch(TypeErrorTime, "Search error")
         ELSE IF ~Truthy(pitId(v.req.body))
         THEN Catch(ReferenceErrorINDEX, "Search error")
         ELSE IF v.frame.failed THEN Catch(v.frame.err, "Search error")
         ELSE Project(v.frame.resp, pitId(v.req.body), keepAlive(v.req.body))
    ELSE IF ~Truthy(v.req.id) THEN Response(400, FALSE, Str("Missing PIT id"))
    ELSE IF v.frame.failed THEN Catch(v.frame.err, "Close PIT error")
    ELSE Response(200, TRUE, Undef)

Isolated(v) ==
    /\ v.pc # "idle" => v.calls = AloneCalls(v.req)
    /\ v.pc \in {"search", "close"} => v.res = <<>>
    /\ v.pc = "done" => v.res = <<AloneResponse(v)>>

\* C17: request isolation.  However two requests in flight interleave at
\* their awaits, the engine calls and the response of each are those of the
\* request run alone with the same engine replies: nothing of one request
\* appears in the other's call or response.
C17_Isolation == Isolated(Invocation) /\ Isolated(other)

\* A search on PIT id p1r has been answered with its own pit while a search
\* on p1 with another cursor awaits the engine.
C17_Witness ==
    /\ other.pc = "search" /\ other.req.body.pit = Pit(Str("p1"), Undef)
    /\ other.req.body.cursor = SortOf(2)
    /\ pc = "done" /\ req.route = "search"
    /\ req.body.pit = Pit(Str("p1r"), Str("5m")) /\ req.body.cursor = Undef
    /\ Len(res) = 1 /\ res[1].ok
    /\ res[1].pit = [id |-> Str("p1r"), keep_alive |-> Str("5m")]
    /\ other.calls[1].body.pit.id = Str("p1")

\* A POST /search that used PIT id p has failed at its search call and has
\* been answered.
FailedSearchOn(v, p) ==
    /\ v.pc = "done" /\ v.req.route = "search"
    /\ v.frame.failed /\ Len(v.calls) = 1
    /\ v.calls[1].body.pit.id = p

\* C13: when a POST /search that used PIT id p has failed at the search
\* call, a POST /close-pit with id p still issues the engine close call for
\* p and answers 200 {ok: true} when the engine accepts it: the failed
\* search leaves nothing in the gateway that blocks or alters the close.
C13_CloseAfterFailedSearch ==
    (req.route = "close" /\ FailedSearchOn(other, req.id)) =>
        /\ pc \in {"close", "done"}
        /\ calls = <<CloseCall(req.id)>>
        /\ pc = "close" => (EngineClosable(pit, req.id) => ENABLED CloseOk)
        /\ (pc = "done" /\ ~frame.failed) => res = <<Response(200, TRUE, Undef)>>

\* The search on p1 failed on a transport error, and the close of p1 that
\* came with it was accepted by the engine and answered 200.
C13_Witness ==
    /\ FailedSearchOn(other, Str("p1"))
    /\ other.frame.err = MetaError(503)
    /\ req.route = "close" /\ req.id = Str("p1") /\ pc = "done"
    /\ calls = <<CloseCall(Str("p1"))>>
    /\ pit.state = "closed"
    /\ Len(res) = 1 /\ res[1].status = 200 /\ res[1].ok

\* A POST /close-pit with id p has been accepted by the engine and answered.
ClosedOn(v, p) ==
    /\ v.pc = "done" /\ v.req.route = "close" /\ v.req.id = p
    /\ Len(v.res) = 1 /\ v.res[1].ok

\* C14: closing a PIT id that is closed already is reported as an error
\* and does not crash the gateway.  Beside a successful close of p, another
\* close of p issues its engine call, is never answered 200 {ok: true} but
\* ok: false with the status of the engine's rejection, and the gateway
\* goes on to the next request.
C14_CloseTwice ==
    (req.route = "close" /\ ClosedOn(other, req.id)) =>
        /\ pc \in {"close", "done"}
        /\ calls = <<CloseCall(req.id)>>
        /\ pc = "done" =>
              /\ Len(res) = 1 /\ ~res[1].ok /\ res[1].status # 200
              /\ frame.failed
              /\ frame.err = ResponseError(404, "search_context_missing_exception")
                    => res[1].status = 404
              /\ res[1].error # Undef
              /\ ENABLED RequestDone

\* The second close of p1 was rejected by the engine and answered 404.
C14_Witness ==
    /\ ClosedOn(other, Str("p1"))
    /\ req.route = "close" /\ req.id = Str("p1") /\ pc = "done"
    /\ frame.err = ResponseError(404, "search_context_missing_exception")
    /\ Len(res) = 1 /\ res[1].status = 404 /\ ~res[1].ok

\* A handler is suspended at the await of an engine call.
Awaiting == pc \in {"search", "close"}

\* C12: bounded wait on the engine.  Every request is answered in the end,
\* also when the engine call made for it never completes: a handler does
\* not stay suspended at its await for ever.
C12_BoundedWait == Awaiting ~> (pc = "done")

\* No request makes an open-PIT call, and the engine's PIT is never one the
\* gateway opened: line 159 throws before es.openPointInTime is called.
GatewayOpensNoPit ==
    /\ OpenCalls = {}
    /\ \A i \in 1..Len(other.calls) : other.calls[i].op # "open"

====
